---- MODULE Spec2Model ----
(***************************************************************************)
(* A model of bevy_spine's asset layer (src/src/assets.rs) and of the      *)
(* ready handler of its example (src/examples/simple.rs).                  *)
(*                                                                         *)
(* Three specifications share the module's variables:                      *)
(*   Spec       one asset load at a time through the three asset loaders   *)
(*   SpecData   one composed SkeletonData, the loads of its handles, and   *)
(*              the accessors entities call on it (FairSpecData adds the   *)
(*              fairness of the per-frame load system)                     *)
(*   SpecReady  the example's on_spawn system over ready events            *)
(* Each specification holds the variables of the others at their initial   *)
(* values.                                                                 *)
(***************************************************************************)
EXTENDS Integers, Sequences, FiniteSets, TLC

VARIABLES
    pc,         \* the load under way: "idle", "loading" or "done"
    path,       \* the asset path of the load: [parent, ext]
    file,       \* what the reader delivers for that path
    loader,     \* the loader the asset server picked by extension
    result,     \* Result<Asset, SpineLoaderError> of load
    parsed,     \* the invocations of rusty_spine::Atlas::new, in order
    loadState,  \* per handle: "Loading", "Loaded" or "Failed"
    sd,         \* the SkeletonData asset, NoData before its construction
    seen,       \* per entity: what its latest skeleton_data() call returned
    last,       \* the latest operation on the SkeletonData and its result
    spine,      \* per entity: its Spine component, or NoSpine
    events,     \* SpineReadyEvents sent and not yet read by on_spawn
    log         \* the entities on_spawn's latest run got a component for

loaderVars == <<pc, path, file, loader, result, parsed>>
dataVars == <<loadState, sd, seen, last>>
readyVars == <<spine, events, log>>
vars == <<pc, path, file, loader, result, parsed, loadState, sd, seen, last,
          spine, events, log>>

(***************************************************************************)
(* Bounds                                                                  *)
(***************************************************************************)
MaxLen == 2
MaxByte == 1
MaxEntities == 2
MaxEvents == 2

Byte == 0..MaxByte
ByteSeqs == UNION {[1..n -> Byte] : n \in 0..MaxLen}

(***************************************************************************)
(* Results and errors                                                      *)
(***************************************************************************)
\* enum SpineLoaderError { Io(std::io::Error), Spine(SpineError) }
SpineLoaderError == {"Io", "Spine"}

Ok(asset) == [tag |-> "Ok", asset |-> asset]
Err(e) == [tag |-> "Err", error |-> e]
NoResult == [tag |-> "None"]

(***************************************************************************)
(* The reader and the wrapped library                                      *)
(***************************************************************************)
\* A source file as the reader presents it: the bytes it delivers, whether the
\* read then ends in an I/O error instead of end-of-file, and whether the
\* wrapped library accepts the content.
Files == [bytes : ByteSeqs, io_error : BOOLEAN, well_formed : BOOLEAN]

\* reader.read_to_end(&mut bytes): appends what the reader delivers to the
\* buffer; the buffer keeps the bytes delivered before an error.
read_to_end(f, buf) ==
    [ok |-> ~f.io_error, buf |-> buf \o f.bytes]

\* bytes.to_vec(): a new vector with the elements of the slice, in order.
to_vec(bytes) == [i \in 1..Len(bytes) |-> bytes[i]]

\* load_context.path().parent().unwrap_or_else(|| Path::new(""))
ParentOrEmpty(p) == IF p.parent = "None" THEN "" ELSE p.parent

\* rusty_spine::Atlas::new(&bytes, dir): the library's verdict on the content.
AtlasNew(bytes, dir, accepted) ==
    IF accepted THEN Ok([bytes |-> bytes, dir |-> dir]) ELSE Err("Spine")

(***************************************************************************)
(* The asset loaders                                                       *)
(***************************************************************************)
Loaders == {"AtlasLoader", "SkeletonJsonLoader", "SkeletonBinaryLoader"}

AtlasLoader_extensions == {"atlas"}

SkeletonJsonLoader_extensions == {"json"}

SkeletonBinaryLoader_extensions_json == {"json"}

SkeletonBinaryLoader_extensions == {"skel"}

extensions(l) ==
    CASE l = "AtlasLoader" -> AtlasLoader_extensions
      [] l = "SkeletonJsonLoader" -> SkeletonJsonLoader_extensions
      [] l = "SkeletonBinaryLoader" -> SkeletonBinaryLoader_extensions

\* type Asset of each loader
AssetType(l) ==
    CASE l = "AtlasLoader" -> "Atlas"
      [] l = "SkeletonJsonLoader" -> "SkeletonJson"
      [] l = "SkeletonBinaryLoader" -> "SkeletonBinary"

\* AtlasLoader::load as written with its two `?` removed: the parser is given
\* whatever the buffer holds, and the read's error is looked at afterwards.
AtlasLoader_load_parse_first(f, p) ==
    LET r == read_to_end(f, <<>>)
        a == AtlasNew(r.buf, ParentOrEmpty(p), f.well_formed)
        calls == <<[bytes |-> r.buf, dir |-> ParentOrEmpty(p)]>>
    IN  IF ~r.ok THEN [result |-> Err("Io"), parsed |-> calls]
        ELSE IF a.tag = "Err" THEN [result |-> Err(a.error), parsed |-> calls]
        ELSE [result |-> Ok([type |-> "Atlas", atlas |-> a.asset]),
              parsed |-> calls]

\* AtlasLoader::load: the result, and the parser invocations it made.
AtlasLoader_load(f, p) ==
    LET r == read_to_end(f, <<>>)
    IN  IF ~r.ok
        THEN [result |-> Err("Io"), parsed |-> <<>>]
        ELSE LET dir == ParentOrEmpty(p)
                 a == AtlasNew(r.buf, dir, f.well_formed)
                 calls == <<[bytes |-> r.buf, dir |-> dir]>>
             IN  IF a.tag = "Err"
                 THEN [result |-> Err(a.error), parsed |-> calls]
                 ELSE [result |-> Ok([type |-> "Atlas", atlas |-> a.asset]),
                       parsed |-> calls]

\* SkeletonJsonLoader::load with a validation step added: content the library
\* would reject is reported as a Spine error.
SkeletonJsonLoader_load_validating(f, p) ==
    LET r == read_to_end(f, <<>>)
    IN  IF ~r.ok THEN [result |-> Err("Io"), parsed |-> <<>>]
        ELSE IF ~f.well_formed THEN [result |-> Err("Spine"), parsed |-> <<>>]
        ELSE [result |-> Ok([type |-> "SkeletonJson", json |-> to_vec(r.buf)]),
              parsed |-> <<>>]

SkeletonJsonLoader_load(f, p) ==
    LET r == read_to_end(f, <<>>)
    IN  IF ~r.ok
        THEN [result |-> Err("Io"), parsed |-> <<>>]
        ELSE [result |-> Ok([type |-> "SkeletonJson", json |-> to_vec(r.buf)]),
              parsed |-> <<>>]

\* SkeletonBinaryLoader::load with a single read in place of read_to_end: only
\* the first chunk the reader hands over, here one byte, reaches the asset.
SkeletonBinaryLoader_load_single_read(f, p) ==
    LET r == read_to_end(f, <<>>)
        first == IF r.buf = <<>> THEN <<>> ELSE <<Head(r.buf)>>
    IN  IF ~r.ok
        THEN [result |-> Err("Io"), parsed |-> <<>>]
        ELSE [result |-> Ok([type |-> "SkeletonBinary",
                             binary |-> to_vec(first)]),
              parsed |-> <<>>]

SkeletonBinaryLoader_load(f, p) ==
    LET r == read_to_end(f, <<>>)
    IN  IF ~r.ok
        THEN [result |-> Err("Io"), parsed |-> <<>>]
        ELSE [result |-> Ok([type |-> "SkeletonBinary",
                             binary |-> to_vec(r.buf)]),
              parsed |-> <<>>]

(***************************************************************************)
(* The SkeletonData asset                                                  *)
(***************************************************************************)
AtlasHandles == {"a1", "a2"}
JsonHandles == {"j1"}
BinaryHandles == {"b1"}
Handles == AtlasHandles \cup JsonHandles \cup BinaryHandles

NoData == [tag |-> "NoData"]
NullArc == "null"

\* enum SkeletonDataStatus { Loaded(Arc<..>), Loading, Failed }
Loaded(arc) == [tag |-> "Loaded", arc |-> arc]
Loading == [tag |-> "Loading", arc |-> NullArc]
Failed == [tag |-> "Failed", arc |-> NullArc]

\* enum SkeletonDataKind { BinaryFile(Handle), JsonFile(Handle) }
BinaryFile(h) == [tag |-> "BinaryFile", handle |-> h]
JsonFile(h) == [tag |-> "JsonFile", handle |-> h]

\* Option<Arc<rusty_spine::SkeletonData>>
Some(arc) == [tag |-> "Some", arc |-> arc]
None == [tag |-> "None", arc |-> NullArc]

\* new_from_json handing out a value that already claims to be loaded.
new_from_json_loaded(json, atlas) ==
    [tag |-> "SkeletonData",
     atlas_handle |-> atlas,
     kind |-> JsonFile(json),
     status |-> Loaded("arc0"),
     premultiplied_alpha |-> FALSE]

new_from_json(json, atlas) ==
    [tag |-> "SkeletonData",
     atlas_handle |-> atlas,
     kind |-> JsonFile(json),
     status |-> Loading,
     premultiplied_alpha |-> FALSE]

\* new_from_binary pasted from new_from_json with the kind left as JsonFile.
new_from_binary_as_json(binary, atlas) ==
    [tag |-> "SkeletonData",
     atlas_handle |-> atlas,
     kind |-> JsonFile(binary),
     status |-> Loading,
     premultiplied_alpha |-> FALSE]

new_from_binary(binary, atlas) ==
    [tag |-> "SkeletonData",
     atlas_handle |-> atlas,
     kind |-> BinaryFile(binary),
     status |-> Loading,
     premultiplied_alpha |-> FALSE]

\* is_loaded written as "no longer loading": Failed counts as loaded.
is_loaded_not_loading(self) == self.status.tag # "Loading"

is_loaded(self) == self.status.tag = "Loaded"

\* skeleton_data returning a deep copy in an Arc of its own.
skeleton_data_copy(self) ==
    IF self.status.tag = "Loaded" THEN Some("copy") ELSE None

skeleton_data(self) ==
    IF self.status.tag = "Loaded" THEN Some(self.status.arc) ELSE None


(***************************************************************************)
(* Spec: one load at a time through the asset server                       *)
(***************************************************************************)
Exts == {"atlas", "json", "skel", "png"}
Paths == [parent : {"", "export"}, ext : Exts]

\* The loaders registered for an extension.
LoadersFor(ext) == {l \in Loaders : ext \in extensions(l)}

Load(l, f, p) ==
    CASE l = "AtlasLoader" -> AtlasLoader_load(f, p)
      [] l = "SkeletonJsonLoader" -> SkeletonJsonLoader_load(f, p)
      [] l = "SkeletonBinaryLoader" -> SkeletonBinaryLoader_load(f, p)

NotAsked == [tag |-> "NotAsked", arc |-> NullArc]
NoSpine == [tag |-> "NoSpine"]
Entities == 1..MaxEntities

LoaderInit ==
    /\ pc = "idle"
    /\ path = [parent |-> "", ext |-> "png"]
    /\ file = [bytes |-> <<>>, io_error |-> FALSE, well_formed |-> FALSE]
    /\ loader = "none"
    /\ result = NoResult
    /\ parsed = <<>>

DataInit ==
    /\ loadState = [h \in Handles |-> "Loading"]
    /\ sd = NoData
    /\ seen = [e \in Entities |-> NotAsked]
    /\ last = [op |-> "none"]

ReadyInit ==
    /\ spine = [e \in Entities |-> NoSpine]
    /\ events = <<>>
    /\ log = <<>>

Init == LoaderInit /\ DataInit /\ ReadyInit

\* asset_server.load(path): the loader is picked by the path's extension; a
\* path no loader accepts ends the load with the host's own error.
StartLoad(p, f) ==
    /\ pc \in {"idle", "done"}
    /\ path' = p
    /\ file' = f
    /\ parsed' = <<>>
    /\ IF LoadersFor(p.ext) = {}
       THEN /\ loader' = "none"
            /\ result' = Err("MissingAssetLoader")
            /\ pc' = "done"
       ELSE /\ loader' \in LoadersFor(p.ext)
            /\ result' = NoResult
            /\ pc' = "loading"
    /\ UNCHANGED <<dataVars, readyVars>>

AtlasLoaderLoad ==
    /\ pc = "loading"
    /\ loader = "AtlasLoader"
    /\ LET r == AtlasLoader_load(file, path)
       IN  /\ result' = r.result
           /\ parsed' = parsed \o r.parsed
    /\ pc' = "done"
    /\ UNCHANGED <<path, file, loader, dataVars, readyVars>>

SkeletonJsonLoaderLoad ==
    /\ pc = "loading"
    /\ loader = "SkeletonJsonLoader"
    /\ LET r == SkeletonJsonLoader_load(file, path)
       IN  /\ result' = r.result
           /\ parsed' = parsed \o r.parsed
    /\ pc' = "done"
    /\ UNCHANGED <<path, file, loader, dataVars, readyVars>>

SkeletonBinaryLoaderLoad ==
    /\ pc = "loading"
    /\ loader = "SkeletonBinaryLoader"
    /\ LET r == SkeletonBinaryLoader_load(file, path)
       IN  /\ result' = r.result
           /\ parsed' = parsed \o r.parsed
    /\ pc' = "done"
    /\ UNCHANGED <<path, file, loader, dataVars, readyVars>>

Next ==
    \/ \E p \in Paths, f \in Files : StartLoad(p, f)
    \/ AtlasLoaderLoad
    \/ SkeletonJsonLoaderLoad
    \/ SkeletonBinaryLoaderLoad

Spec == Init /\ [][Next]_vars


(***************************************************************************)
(* SpecData: one SkeletonData, the loads of its handles, its accessors     *)
(***************************************************************************)
\* The loader and extension behind each kind of handle.
LoaderOf(h) ==
    IF h \in AtlasHandles THEN "AtlasLoader"
    ELSE IF h \in JsonHandles THEN "SkeletonJsonLoader"
    ELSE "SkeletonBinaryLoader"

\* skeletons.add(SkeletonData::new_from_json(json, atlas))
NewFromJson(json, atlas) ==
    /\ sd = NoData
    /\ sd' = new_from_json(json, atlas)
    /\ last' = [op |-> "new_from_json", skel |-> json, atlas |-> atlas]
    /\ UNCHANGED <<loadState, seen, loaderVars, readyVars>>

\* skeletons.add(SkeletonData::new_from_binary(binary, atlas))
NewFromBinary(binary, atlas) ==
    /\ sd = NoData
    /\ sd' = new_from_binary(binary, atlas)
    /\ last' = [op |-> "new_from_binary", skel |-> binary, atlas |-> atlas]
    /\ UNCHANGED <<loadState, seen, loaderVars, readyVars>>

\* Per loader, whether load can return Ok and whether it can return Err, over
\* everything a reader may deliver for a path the loader accepts.
LoadOutcomes ==
    [l \in Loaders |->
        {Load(l, f, p).result.tag = "Ok" :
            f \in Files, p \in {q \in Paths : q.ext \in extensions(l)}}]

\* The asset server finishes the load of a handle: the handle's loader runs on
\* what the reader delivers, and the handle is Loaded or Failed by its result.
FinishLoad(h) ==
    /\ loadState[h] = "Loading"
    /\ \E ok \in LoadOutcomes[LoaderOf(h)] :
          loadState' = [loadState EXCEPT ![h] =
                IF ok THEN "Loaded" ELSE "Failed"]
    /\ last' = [op |-> "finish_load"]
    /\ UNCHANGED <<sd, seen, loaderVars, readyVars>>

\* The status the per-frame load system gives a Loading SkeletonData whose
\* atlas and skeleton file are in load states a and s; accepted is the wrapped
\* library's verdict on the skeleton bytes.
spine_load_status(a, s, accepted) ==
    IF a = "Failed" \/ s = "Failed" THEN Failed
    ELSE IF a = "Loaded" /\ s = "Loaded"
         THEN IF accepted THEN Loaded("arc1") ELSE Failed
         ELSE Loading

\* One run of the load system that changes the SkeletonData.
SpineLoad ==
    /\ sd # NoData
    /\ sd.status.tag = "Loading"
    /\ \E accepted \in BOOLEAN :
          LET st == spine_load_status(loadState[sd.atlas_handle],
                                      loadState[sd.kind.handle], accepted)
          IN  /\ st # Loading
              /\ sd' = [sd EXCEPT !.status = st]
    /\ last' = [op |-> "spine_load"]
    /\ UNCHANGED <<loadState, seen, loaderVars, readyVars>>

\* skeleton.is_loaded()
IsLoadedCall ==
    /\ sd # NoData
    /\ last' = [op |-> "is_loaded", ret |-> is_loaded(sd)]
    /\ UNCHANGED <<loadState, sd, seen, loaderVars, readyVars>>

\* skeleton.skeleton_data(), called on behalf of entity e
SkeletonDataCall(e) ==
    /\ sd # NoData
    /\ seen' = [seen EXCEPT ![e] = skeleton_data(sd)]
    /\ last' = [op |-> "skeleton_data", entity |-> e]
    /\ UNCHANGED <<loadState, sd, loaderVars, readyVars>>

NextData ==
    \/ \E j \in JsonHandles, a \in AtlasHandles : NewFromJson(j, a)
    \/ \E b \in BinaryHandles, a \in AtlasHandles : NewFromBinary(b, a)
    \/ \E h \in Handles : FinishLoad(h)
    \/ SpineLoad
    \/ IsLoadedCall
    \/ \E e \in Entities : SkeletonDataCall(e)

SpecData == Init /\ [][NextData]_vars

\* The load system runs every frame.
FairSpecData == SpecData /\ WF_vars(SpineLoad)

(***************************************************************************)
(* SpecReady: the example's on_spawn system                                *)
(***************************************************************************)
AnimationNames == {"portal", "run"}
NoAnimation == [name |-> "", looping |-> FALSE]

\* Vec2::splat(v)
Splat(v) == <<v, v>>

\* skeleton.set_scale(scale)
set_scale(c, scale) == [c EXCEPT !.scale = scale]

\* animation_state.set_animation_by_name(track, name, looping): an Err for a
\* name the skeleton has no animation for, and then no change.
set_animation_by_name(c, track, name, looping) ==
    IF name \in c.animations
    THEN [c EXCEPT !.tracks[track] = [name |-> name, looping |-> looping]]
    ELSE c

\* The body of on_spawn's `if let`; scales are in tenths.
on_spawn_body(c) ==
    set_animation_by_name(set_scale(c, Splat(5)), 0, "portal", TRUE)

RECURSIVE on_spawn_loop_stop(_, _, _)
on_spawn_loop_stop(evs, sp, lg) ==
    IF evs = <<>> \/ sp[Head(evs)] = NoSpine
    THEN [spine |-> sp, log |-> lg]
    ELSE on_spawn_loop_stop(Tail(evs),
             [sp EXCEPT ![Head(evs)] = on_spawn_body(sp[Head(evs)])],
             Append(lg, Head(evs)))

\* on_spawn leaving its loop at the first event whose entity has no Spine.
on_spawn_stop_at_missing(evs, sp) == on_spawn_loop_stop(evs, sp, <<>>)

RECURSIVE on_spawn_loop(_, _, _)
on_spawn_loop(evs, sp, lg) ==
    IF evs = <<>>
    THEN [spine |-> sp, log |-> lg]
    ELSE LET e == Head(evs)
         IN  IF sp[e] # NoSpine
             THEN on_spawn_loop(Tail(evs),
                      [sp EXCEPT ![e] = on_spawn_body(sp[e])],
                      Append(lg, e))
             ELSE on_spawn_loop(Tail(evs), sp, lg)

\* on_spawn over the events read this frame: the components afterwards and the
\* entities whose component it got, in order.
on_spawn(evs, sp) == on_spawn_loop(evs, sp, <<>>)

\* An entity's Spine component becomes ready: the component is there and a
\* SpineReadyEvent for the entity is sent.
SpawnReady(e, anims) ==
    /\ spine[e] = NoSpine
    /\ Len(events) < MaxEvents
    /\ spine' = [spine EXCEPT ![e] =
          [scale |-> Splat(10),
           tracks |-> [t \in {0} |-> NoAnimation],
           animations |-> anims]]
    /\ events' = Append(events, e)
    /\ UNCHANGED <<log, loaderVars, dataVars>>

\* The entity is despawned, or its Spine component removed.
Despawn(e) ==
    /\ spine[e] # NoSpine
    /\ spine' = [spine EXCEPT ![e] = NoSpine]
    /\ UNCHANGED <<events, log, loaderVars, dataVars>>

\* Another system with Query<&mut Spine> changes the component.
OtherSystem(e) ==
    /\ spine[e] # NoSpine
    /\ spine' = [spine EXCEPT ![e] =
          set_animation_by_name(set_scale(@, Splat(10)), 0, "run", TRUE)]
    /\ UNCHANGED <<events, log, loaderVars, dataVars>>

\* One run of on_spawn: it reads every event not yet read.
OnSpawn ==
    /\ LET r == on_spawn(events, spine)
       IN  /\ spine' = r.spine
           /\ log' = r.log
    /\ events' = <<>>
    /\ UNCHANGED <<loaderVars, dataVars>>

NextReady ==
    \/ \E e \in Entities, anims \in {AnimationNames, {"run"}} :
          SpawnReady(e, anims)
    \/ \E e \in Entities : Despawn(e)
    \/ \E e \in Entities : OtherSystem(e)
    \/ OnSpawn

SpecReady == Init /\ [][NextReady]_vars


(***************************************************************************)
(* Properties of the loaders (Spec)                                        *)
(***************************************************************************)
AcceptedExtensions == {"atlas", "json", "skel"}

\* The asset type the claim gives each accepted extension.
TypeOfExtension(ext) ==
    CASE ext = "atlas" -> "Atlas"
      [] ext = "json" -> "SkeletonJson"
      [] ext = "skel" -> "SkeletonBinary"

LoadDone == pc = "done" /\ loader \in Loaders

\* C1: the three loaders accept exactly atlas, json and skel, one extension
\* each (AtlasLoader atlas, SkeletonJsonLoader json, SkeletonBinaryLoader
\* skel), the three sets are pairwise disjoint, and a load of a path is given
\* to a loader exactly when its extension is one of the three, to the one
\* loader that accepts it, and an asset it yields has that loader's type.
C1_ExtensionsPartition ==
    /\ AtlasLoader_extensions = {"atlas"}
    /\ SkeletonJsonLoader_extensions = {"json"}
    /\ SkeletonBinaryLoader_extensions = {"skel"}
    /\ UNION {extensions(l) : l \in Loaders} = AcceptedExtensions
    /\ \A l1, l2 \in Loaders :
          l1 # l2 => extensions(l1) \cap extensions(l2) = {}
    /\ pc # "idle" =>
          /\ (path.ext \in AcceptedExtensions) <=> (loader \in Loaders)
          /\ loader \in Loaders => LoadersFor(path.ext) = {loader}
          /\ result.tag = "Ok" =>
                /\ result.asset.type = AssetType(loader)
                /\ result.asset.type = TypeOfExtension(path.ext)

C1_Witness ==
    /\ pc = "done"
    /\ path.ext = "skel"
    /\ loader = "SkeletonBinaryLoader"
    /\ result.tag = "Ok"
    /\ result.asset.type = "SkeletonBinary"

\* C2 as stated: for each of the three loaders a finished load is the Io error
\* when the read fails, the Spine error when the read succeeds and the wrapped
\* library rejects the bytes, and the typed asset otherwise, for atlas files
\* and skeleton files alike.
C2_Original ==
    LoadDone =>
       /\ file.io_error => result = Err("Io")
       /\ (~file.io_error /\ ~file.well_formed) => result = Err("Spine")
       /\ (~file.io_error /\ file.well_formed) => result.tag = "Ok"

\* C2 as amended: every finished load is the typed asset or a tagged
\* SpineLoaderError; the Io error is the result exactly when the read fails,
\* for all three loaders; the Spine error is the result of AtlasLoader exactly
\* when the read succeeds and the library rejects the bytes; the two skeleton
\* loaders never return the Spine error and return the asset whenever the read
\* succeeds, whatever the library would say of the bytes.
C2_LoadOutcomes ==
    LoadDone =>
       /\ result.tag \in {"Ok", "Err"}
       /\ result.tag = "Err" => result.error \in SpineLoaderError
       /\ file.io_error <=> (result = Err("Io"))
       /\ loader = "AtlasLoader" =>
             /\ (result = Err("Spine")) <=>
                   (~file.io_error /\ ~file.well_formed)
             /\ (result.tag = "Ok") <=> (~file.io_error /\ file.well_formed)
       /\ loader # "AtlasLoader" =>
             /\ result # Err("Spine")
             /\ (result.tag = "Ok") <=> ~file.io_error

C2_Witness ==
    /\ LoadDone
    /\ loader = "SkeletonJsonLoader"
    /\ ~file.io_error
    /\ ~file.well_formed
    /\ result.tag = "Ok"

\* C5: when the reader delivers a byte sequence without an I/O error, the
\* empty sequence and content the library would reject included,
\* SkeletonJsonLoader::load returns Ok with json equal to that sequence and
\* SkeletonBinaryLoader::load returns Ok with binary equal to it.
C5_BytesForwarded ==
    (LoadDone /\ ~file.io_error) =>
       /\ loader = "SkeletonJsonLoader" =>
             result = Ok([type |-> "SkeletonJson", json |-> file.bytes])
       /\ loader = "SkeletonBinaryLoader" =>
             result = Ok([type |-> "SkeletonBinary", binary |-> file.bytes])

C5_Witness ==
    /\ LoadDone
    /\ loader = "SkeletonBinaryLoader"
    /\ ~file.io_error
    /\ ~file.well_formed
    /\ Len(file.bytes) = MaxLen
    /\ result.tag = "Ok"
    /\ result.asset.binary = file.bytes

\* C7: in AtlasLoader::load a failed read gives the Io error and the atlas
\* parser is not invoked; after a successful read the parser is invoked once,
\* on the complete bytes read; its rejection gives the Spine error; the Atlas
\* asset, built from those bytes, is the result only when read and parse both
\* succeed, and a failure carries no asset.
C7_AtlasFailureOrder ==
    (LoadDone /\ loader = "AtlasLoader") =>
       /\ file.io_error => (result = Err("Io") /\ parsed = <<>>)
       /\ ~file.io_error =>
             parsed = <<[bytes |-> file.bytes, dir |-> path.parent]>>
       /\ (~file.io_error /\ ~file.well_formed) => result = Err("Spine")
       /\ (result.tag = "Ok") <=> (~file.io_error /\ file.well_formed)
       /\ result.tag = "Ok" =>
             result.asset = [type |-> "Atlas",
                             atlas |-> [bytes |-> file.bytes,
                                        dir |-> path.parent]]
       /\ result.tag # "Ok" => DOMAIN result = {"tag", "error"}

C7_Witness ==
    /\ LoadDone
    /\ loader = "AtlasLoader"
    /\ file.io_error
    /\ file.bytes # <<>>
    /\ file.well_formed
    /\ result = Err("Io")
    /\ parsed = <<>>


(***************************************************************************)
(* Properties of SkeletonData (SpecData, FairSpecData)                     *)
(***************************************************************************)
HasData == sd # NoData

AtlasState == loadState[sd.atlas_handle]
FileState == loadState[sd.kind.handle]

\* C3, the part every state satisfies: Loaded only with both the atlas and the
\* skeleton file loaded, and never Loaded with either of them failed.
C3_StateInv ==
    HasData =>
       /\ sd.status.tag = "Loaded" =>
             (AtlasState = "Loaded" /\ FileState = "Loaded")
       /\ (AtlasState = "Failed" \/ FileState = "Failed") =>
             sd.status.tag # "Loaded"

\* C3, the part every step satisfies: a SkeletonData starts Loading, and one
\* that is Loaded or Failed is not Loading afterwards.
C3_Step ==
    /\ (~HasData /\ sd' # NoData) => sd'.status = Loading
    /\ (HasData /\ sd.status.tag # "Loading") =>
          (sd' # NoData /\ sd'.status.tag # "Loading")

C3_DependencyFailed == HasData /\ (AtlasState = "Failed" \/ FileState = "Failed")
C3_StatusFailed == HasData /\ sd.status.tag = "Failed"

\* C3: a SkeletonData starts Loading; its status is Loaded only after both its
\* atlas and its skeleton file have finished loading; a failure of the atlas or
\* of the skeleton file leads to Failed and never to Loaded; and a status that
\* is Loaded or Failed does not return to Loading.
C3_DependencyOrdered ==
    /\ []C3_StateInv
    /\ [][C3_Step]_vars
    /\ (C3_DependencyFailed ~> C3_StatusFailed)

C3_Witness ==
    /\ HasData
    /\ sd.status = Failed
    /\ AtlasState = "Failed"
    /\ FileState = "Loaded"

\* C4: right after new_from_json(json, atlas), respectively
\* new_from_binary(binary, atlas), the value has the given atlas handle, kind
\* JsonFile(json) respectively BinaryFile(binary), status Loading and
\* premultiplied_alpha false, so is_loaded() is false and skeleton_data() None.
C4_Constructors ==
    /\ last.op = "new_from_json" =>
          /\ sd.atlas_handle = last.atlas
          /\ sd.kind = JsonFile(last.skel)
          /\ sd.status = Loading
          /\ sd.premultiplied_alpha = FALSE
          /\ is_loaded(sd) = FALSE
          /\ skeleton_data(sd) = None
    /\ last.op = "new_from_binary" =>
          /\ sd.atlas_handle = last.atlas
          /\ sd.kind = BinaryFile(last.skel)
          /\ sd.status = Loading
          /\ sd.premultiplied_alpha = FALSE
          /\ is_loaded(sd) = FALSE
          /\ skeleton_data(sd) = None

C4_Witness ==
    /\ last.op = "new_from_binary"
    /\ last.atlas = "a2"
    /\ sd.atlas_handle = "a2"
    /\ sd.kind.tag = "BinaryFile"

\* C6, the part every state satisfies: a skeleton_data() call just made
\* returned the Arc the Loaded status holds (None when not Loaded), and every
\* Some an entity has been handed is that same Arc.
C6_StateInv ==
    /\ \A e \in Entities :
          seen[e].tag = "Some" => sd.status = Loaded(seen[e].arc)
    /\ last.op = "skeleton_data" =>
          seen[last.entity] =
             IF sd.status.tag = "Loaded" THEN Some(sd.status.arc) ELSE None

\* C6, the part every step satisfies: is_loaded() and skeleton_data() leave the
\* four fields of the SkeletonData as they were.
C6_Step ==
    last'.op \in {"is_loaded", "skeleton_data"} =>
       /\ sd'.atlas_handle = sd.atlas_handle
       /\ sd'.kind = sd.kind
       /\ sd'.status = sd.status
       /\ sd'.premultiplied_alpha = sd.premultiplied_alpha

\* C6: is_loaded() and skeleton_data() leave atlas_handle, kind, status and
\* premultiplied_alpha unchanged, and every skeleton_data() call on a Loaded
\* value, repeated or made for different entities, returns the one shared
\* skeleton data the status holds.
C6_SharedData ==
    /\ []C6_StateInv
    /\ [][C6_Step]_vars

C6_Witness ==
    /\ HasData
    /\ sd.status.tag = "Loaded"
    /\ seen[1] = Some(sd.status.arc)
    /\ seen[MaxEntities] = seen[1]
    /\ last.op = "skeleton_data"

\* C8: in each status is_loaded() is true exactly when skeleton_data() is
\* Some; both are true/Some for Loaded only, and false and None for Loading and
\* for Failed alike.
C8_AccessorsAgree ==
    HasData =>
       /\ is_loaded(sd) <=> (skeleton_data(sd).tag = "Some")
       /\ is_loaded(sd) <=> (sd.status.tag = "Loaded")
       /\ sd.status.tag \in {"Loading", "Failed"} =>
             (is_loaded(sd) = FALSE /\ skeleton_data(sd) = None)
       /\ last.op = "is_loaded" => last.ret = (sd.status.tag = "Loaded")

C8_Witness ==
    /\ HasData
    /\ sd.status = Failed
    /\ last.op = "is_loaded"
    /\ last.ret = FALSE
    /\ \E e \in Entities : seen[e] = None

(***************************************************************************)
(* Properties of on_spawn (SpecReady)                                      *)
(***************************************************************************)
Range(s) == {s[i] : i \in 1..Len(s)}

\* A step of on_spawn: the unread events are consumed, or, with none to read,
\* the record of the run is renewed.
C9_OnSpawnStep == events' = <<>> /\ (events # <<>> \/ log' # log)

\* What the claim has on_spawn do to a component it got.
C9_Target(c) ==
    [c EXCEPT !.scale = <<5, 5>>,
              !.tracks[0] = IF "portal" \in c.animations
                            THEN [name |-> "portal", looping |-> TRUE]
                            ELSE @]

C9_Step ==
    C9_OnSpawnStep =>
       LET HasSpine(e) == spine[e] # NoSpine
       IN  /\ log' = SelectSeq(events, HasSpine)
           /\ \A e \in Entities :
                 spine'[e] = IF e \in Range(events) /\ HasSpine(e)
                             THEN C9_Target(spine[e])
                             ELSE spine[e]

\* C9: a run of on_spawn handles every event read once, in arrival order: for
\* an event whose entity has a Spine component, that entity's scale and track-0
\* animation are set and nothing else; an event whose entity has none is
\* skipped and the events after it are still handled; an entity for which no
\* event was read is left as it was.
C9_ReadyHandler == [][C9_Step]_vars

C9_Witness ==
    /\ events = <<>>
    /\ Len(log) = 1
    /\ spine[log[1]] # NoSpine
    /\ spine[log[1]].scale = <<5, 5>>
    /\ spine[log[1]].tracks[0] = [name |-> "portal", looping |-> TRUE]
    /\ \E e \in Entities \ {log[1]} :
          /\ spine[e] # NoSpine
          /\ spine[e].scale = <<10, 10>>
          /\ spine[e].tracks[0].name = "run"

====
